---- MODULE Spec2Model ----
(***************************************************************************)
(* Chemical inventory (ChemicalInventory.tsx, UpdateInventoryForm.tsx).    *)
(*                                                                         *)
(* Quantities are counted in hundredths (the forms use step="0.01"), so    *)
(* the schema bound 0.01 is the integer 1.  Date.now() is the wall clock:  *)
(* it is not monotonic and has millisecond resolution, so every read is a  *)
(* free choice from Clock.                                                 *)
(***************************************************************************)
EXTENDS Integers, Sequences, FiniteSets, TLC

\* ---- bounds ----
MaxLots == 2
MaxUsage == 2

\* ---- value domains ----
Clock == {1, 2}
Names == {"", "acid"}
Quantities == (0 - 1)..2
QuantitiesUsed == (0 - 1)..3
Persons == {"", "op"}
SearchTerms == {"", "ac"}
FilterModes == {"name", "date", "location"}

VARIABLES state, showAddForm, showUpdateForm, localStorage, writes, toast,
          lastCall,
          mount,
          table, rendered, today, download,
          time, isRunning, gpm, intervalIds, gpmDue, isLoading,
          component, operatorName, deepwell9, deepwell10, notes,
          flowLog, flowReadings, calls, isSending

\* InventoryTable with the alerts of its parent, and the stopwatch of
\* GPMCalculator
tableVars == <<table, rendered, today, download>>
fieldVars == <<operatorName, deepwell9, deepwell10, notes>>
watchVars == <<time, isRunning, gpm, intervalIds, gpmDue, isLoading,
               component, fieldVars, flowLog, flowReadings, calls, isSending>>

vars == <<state, showAddForm, showUpdateForm, localStorage, writes, toast,
          lastCall, mount, tableVars, watchVars>>

Max(a, b) == IF a >= b THEN a ELSE b

Last(s) == s[Len(s)]

\* the value of an <input type="number"> with what Number() makes of it
NoDeepwell == [text |-> "", number |-> 0]

\* ---- persistence ----
\* JSON.stringify of the two collections: arrays of objects of strings and
\* finite numbers, which it encodes field by field
JSONstringify(chemicals, usageHistory) ==
    [chemicals |-> chemicals, usageHistory |-> usageHistory]

\* The save effect runs when one of its dependencies is a new array.  The
\* updaters that leave a collection alone keep the same array ({...prev}),
\* and the two that replace one always change its contents, so comparing
\* contents decides the dependency check here.
SaveDepsOnlyUsage(prev, next) == prev.usageHistory # next.usageHistory
SaveDeps(prev, next) ==
    prev.chemicals # next.chemicals \/ prev.usageHistory # next.usageHistory

\* setState followed by the effects of the render it causes
Commit(next) ==
    /\ state' = next
    /\ IF SaveDeps(state, next)
       THEN /\ localStorage' = JSONstringify(next.chemicals, next.usageHistory)
            /\ writes' = writes + 1
       ELSE UNCHANGED <<localStorage, writes>>

\* useState's initial value
InitialState ==
    [chemicals |-> <<>>, usageHistory |-> <<>>, searchTerm |-> "",
     filterBy |-> "name", isDarkMode |-> FALSE]

\* localStorage.getItem of a key never written
Null == [absent |-> TRUE]

\* the components that a specification leaves alone
MountDone == mount = [pc |-> "ready", prior |-> Null, queued |-> <<>>]
TableIdle ==
    /\ table = [chemicals |-> <<>>, searchTerm |-> <<>>, filterBy |-> "name",
                sortBy |-> "name", sortOrder |-> "asc"]
    /\ rendered = [filteredChemicals |-> <<>>, sortedChemicals |-> <<>>,
                   badges |-> <<>>,
                   alerts |-> <<>>]
    /\ today = [now |-> 0, offset |-> 0]
    /\ download = <<>>
WatchIdle ==
    /\ time = 0
    /\ isRunning = FALSE
    /\ gpm = 0
    /\ intervalIds = 0
    /\ gpmDue = FALSE
    /\ isLoading = FALSE
    /\ component = "GPMCalculator"
    /\ operatorName = <<>>
    /\ deepwell9 = NoDeepwell
    /\ deepwell10 = NoDeepwell
    /\ notes = ""
    /\ flowLog = <<>>
    /\ flowReadings = {}
    /\ calls = <<>>
    /\ isSending = FALSE

\* the inventory after a first start (nothing stored before)
InventoryInit ==
    /\ state = InitialState
    /\ showAddForm = FALSE
    /\ showUpdateForm = FALSE
    /\ localStorage = JSONstringify(<<>>, <<>>)
    /\ writes = 0
    /\ toast = ""
    /\ lastCall = [n |-> 0, op |-> "none", arg |-> [name |-> ""], now |-> 0]

Init ==
    /\ InventoryInit
    /\ MountDone
    /\ TableIdle
    /\ WatchIdle

\* ---- addChemical ----
NewChemicalOverstated(chemical, t) ==
    [id |-> ToString(t), name |-> chemical.name, quantity |-> chemical.quantity,
     currentBalance |-> chemical.quantity + 1]
NewChemical(chemical, t) ==
    [id |-> ToString(t), name |-> chemical.name, quantity |-> chemical.quantity,
     currentBalance |-> chemical.quantity]

addChemical(chemical, t) ==
    /\ Commit([state EXCEPT !.chemicals = Append(@, NewChemical(chemical, t))])
    /\ toast' = "Chemical Added"
    /\ lastCall' = [n |-> lastCall.n + 1, op |-> "addChemical",
                    arg |-> chemical, now |-> t]

\* chemicalSchema of AddChemicalForm: name required, quantity at least 0.01
\* (quantities are whole numbers here)
AddChemicalFormValid(chemical) ==
    /\ chemical.name # ""
    /\ chemical.quantity >= 1

AddChemicalSubmit ==
    /\ showAddForm
    /\ Len(state.chemicals) < MaxLots
    /\ \E n \in Names, q \in Quantities, t \in Clock :
          LET chemical == [name |-> n, quantity |-> q] IN
          /\ AddChemicalFormValid(chemical)
          /\ addChemical(chemical, t)
    /\ showAddForm' = FALSE
    /\ UNCHANGED <<showUpdateForm, mount, tableVars, watchVars>>

\* ---- updateInventory ----
NewUsage(usage, t) ==
    [id |-> ToString(t), chemicalId |-> usage.chemicalId,
     chemicalName |-> usage.chemicalName, quantityUsed |-> usage.quantityUsed,
     personInCharge |-> usage.personInCharge]

DebitUnfloored(chemical, usage) ==
    IF chemical.id = usage.chemicalId
    THEN [chemical EXCEPT !.currentBalance = @ - usage.quantityUsed]
    ELSE chemical
Debit(chemical, usage) ==
    IF chemical.id = usage.chemicalId
    THEN [chemical EXCEPT !.currentBalance = Max(0, @ - usage.quantityUsed)]
    ELSE chemical

UsageUpdaterPrepend(prev, usage, newUsage) ==
    [prev EXCEPT !.usageHistory = <<newUsage>> \o @,
                 !.chemicals = [i \in DOMAIN @ |-> Debit(@[i], usage)]]
UsageUpdaterSkipUnknown(prev, usage, newUsage) ==
    IF \E i \in DOMAIN prev.chemicals : prev.chemicals[i].id = usage.chemicalId
    THEN [prev EXCEPT !.usageHistory = Append(@, newUsage),
                      !.chemicals = [i \in DOMAIN @ |-> Debit(@[i], usage)]]
    ELSE prev
UsageUpdater(prev, usage, newUsage) ==
    [prev EXCEPT !.usageHistory = Append(@, newUsage),
                 !.chemicals = [i \in DOMAIN @ |-> Debit(@[i], usage)]]

updateInventory(usage, t) ==
    /\ Commit(UsageUpdater(state, usage, NewUsage(usage, t)))
    /\ toast' = "Inventory Updated"
    /\ lastCall' = [n |-> lastCall.n + 1, op |-> "updateInventory",
                    arg |-> usage, now |-> t]

\* ---- UpdateInventoryForm ----
\* chemicals.find(c => c.id === id): the index of the first match, 0 for none
Find(chemicals, id) ==
    LET hits == {i \in DOMAIN chemicals : chemicals[i].id = id} IN
    IF hits = {} THEN 0 ELSE CHOOSE i \in hits : \A j \in hits : i <= j

usageSchemaNoMin(data) ==
    /\ data.chemicalId # ""
    /\ data.personInCharge # ""
usageSchema(data) ==
    /\ data.chemicalId # ""
    /\ data.quantityUsed >= 1
    /\ data.personInCharge # ""

\* the options of the chemical Select
availableChemicals(chemicals) ==
    {chemicals[i].id : i \in {j \in DOMAIN chemicals : chemicals[j].currentBalance > 0}}

\* the quantity input's max attribute and the submit button's disabled flag,
\* both computed from selectedChemical = chemicals.find(...)
NativeValid(chemicals, data) ==
    LET s == Find(chemicals, data.chemicalId) IN
    /\ s # 0
    /\ data.quantityUsed <= chemicals[s].currentBalance

onFormSubmit(data, t) ==
    LET s == Find(state.chemicals, data.chemicalId)
        chemicalName == IF s = 0 THEN "" ELSE state.chemicals[s].name
    IN
    /\ updateInventory([chemicalId |-> data.chemicalId,
                        chemicalName |-> chemicalName,
                        quantityUsed |-> data.quantityUsed,
                        personInCharge |-> data.personInCharge], t)
    /\ showUpdateForm' = FALSE
    /\ UNCHANGED <<showAddForm, mount, tableVars, watchVars>>

UsageFormSubmit ==
    /\ showUpdateForm
    /\ Len(state.usageHistory) < MaxUsage
    /\ \E c \in availableChemicals(state.chemicals), q \in QuantitiesUsed,
          p \in Persons, t \in Clock :
          LET data == [chemicalId |-> c, quantityUsed |-> q, personInCharge |-> p]
          IN
          /\ NativeValid(state.chemicals, data)
          /\ usageSchema(data)
          /\ onFormSubmit(data, t)

\* ---- the remaining handlers ----
ToggleAddForm ==
    /\ showAddForm' = ~showAddForm
    /\ UNCHANGED <<state, showUpdateForm, localStorage, writes, toast, lastCall,
                   mount, tableVars, watchVars>>

ToggleUpdateForm ==
    /\ showUpdateForm' = ~showUpdateForm
    /\ UNCHANGED <<state, showAddForm, localStorage, writes, toast, lastCall,
                   mount, tableVars, watchVars>>

onSearchChange ==
    /\ \E term \in SearchTerms : Commit([state EXCEPT !.searchTerm = term])
    /\ UNCHANGED <<showAddForm, showUpdateForm, toast, lastCall,
                   mount, tableVars, watchVars>>

onFilterChange ==
    /\ \E filter \in FilterModes : Commit([state EXCEPT !.filterBy = filter])
    /\ UNCHANGED <<showAddForm, showUpdateForm, toast, lastCall,
                   mount, tableVars, watchVars>>

onCheckedChange ==
    /\ \E checked \in BOOLEAN : Commit([state EXCEPT !.isDarkMode = checked])
    /\ UNCHANGED <<showAddForm, showUpdateForm, toast, lastCall,
                   mount, tableVars, watchVars>>

Next ==
    \/ ToggleAddForm
    \/ ToggleUpdateForm
    \/ AddChemicalSubmit
    \/ UsageFormSubmit
    \/ onSearchChange
    \/ onFilterChange
    \/ onCheckedChange

Spec == Init /\ [][Next]_vars

\* ---- updateInventory called directly, on any usage of its parameter's type
\* (lots are the ones the add form lets through) ----
ChemicalIds == {ToString(t) : t \in Clock} \cup {"none"}
EngineQuantities == {0 - 1, 1, 3}

AddChemicalCall ==
    /\ Len(state.chemicals) < MaxLots
    /\ \E n \in Names, q \in Quantities, t \in Clock :
          LET chemical == [name |-> n, quantity |-> q] IN
          /\ AddChemicalFormValid(chemical)
          /\ addChemical(chemical, t)
    /\ UNCHANGED <<showAddForm, showUpdateForm, mount, tableVars, watchVars>>

UpdateInventoryCall ==
    /\ Len(state.usageHistory) < MaxUsage
    /\ \E c \in ChemicalIds, q \in EngineQuantities, t \in Clock :
          updateInventory([chemicalId |-> c, chemicalName |-> "acid",
                           quantityUsed |-> q, personInCharge |-> "op"], t)
    /\ UNCHANGED <<showAddForm, showUpdateForm, mount, tableVars, watchVars>>

EngineNext ==
    \/ AddChemicalCall
    \/ UpdateInventoryCall

EngineSpec == Init /\ [][EngineNext]_vars

\* ---- mounting ChemicalInventory over what an earlier session left ----
\* a stored text that is not JSON
Malformed == [text |-> "{chemicals:"]

StoredLot == [id |-> "1", name |-> "acid", quantity |-> 2, currentBalance |-> 1]
StoredUsage ==
    [id |-> "2", chemicalId |-> "1", chemicalName |-> "acid",
     quantityUsed |-> 1, personInCharge |-> "op"]

PriorBlobs ==
    {Null, Malformed, JSONstringify(<<>>, <<>>),
     JSONstringify(<<StoredLot>>, <<>>),
     JSONstringify(<<StoredLot>>, <<StoredUsage>>)}

\* JSON.parse gives back the object that was stringified and throws on a
\* text that is not JSON
JSONparseThrows(text) == text = Malformed
JSONparse(text) ==
    [chemicals |-> text.chemicals, usageHistory |-> text.usageHistory]

\* the load effect's body: what it queues with setState, and whether an
\* error leaves it
LoadUncaught(savedData) ==
    IF savedData = Null THEN [queued |-> <<>>, thrown |-> FALSE]
    ELSE IF JSONparseThrows(savedData) THEN [queued |-> <<>>, thrown |-> TRUE]
    ELSE [queued |-> <<JSONparse(savedData)>>, thrown |-> FALSE]
Load(savedData) ==
    IF savedData = Null THEN [queued |-> <<>>, thrown |-> FALSE]
    ELSE IF JSONparseThrows(savedData) THEN [queued |-> <<>>, thrown |-> FALSE]
    ELSE [queued |-> <<JSONparse(savedData)>>, thrown |-> FALSE]

\* setState(prev => ({ ...prev, ...parsed }))
Merge(prev, parsed) ==
    [prev EXCEPT !.chemicals = parsed.chemicals,
                 !.usageHistory = parsed.usageHistory]

MountInit ==
    /\ state = InitialState
    /\ showAddForm = FALSE
    /\ showUpdateForm = FALSE
    /\ localStorage \in PriorBlobs
    /\ writes = 0
    /\ toast = ""
    /\ lastCall = [n |-> 0, op |-> "none", arg |-> [name |-> ""], now |-> 0]
    /\ mount = [pc |-> "mounted", prior |-> localStorage, queued |-> <<>>]
    /\ TableIdle
    /\ WatchIdle

\* the effects of the first render, in the order of their declaration
LoadEffect ==
    /\ mount.pc = "mounted"
    /\ LET r == Load(localStorage) IN
       mount' = [mount EXCEPT !.pc = IF r.thrown THEN "crashed" ELSE "loaded",
                              !.queued = r.queued]
    /\ UNCHANGED <<state, showAddForm, showUpdateForm, localStorage, writes,
                   toast, lastCall, tableVars, watchVars>>

SaveEffect ==
    /\ mount.pc = "loaded"
    /\ localStorage' = JSONstringify(state.chemicals, state.usageHistory)
    /\ writes' = writes + 1
    /\ mount' = [mount EXCEPT
                    !.pc = IF mount.queued = <<>> THEN "ready" ELSE "saved"]
    /\ UNCHANGED <<state, showAddForm, showUpdateForm, toast, lastCall,
                   tableVars, watchVars>>

\* the render of the queued update, with the save effect it causes
LoadRender ==
    /\ mount.pc = "saved"
    /\ Commit(Merge(state, mount.queued[1]))
    /\ mount' = [mount EXCEPT !.pc = "ready", !.queued = <<>>]
    /\ UNCHANGED <<showAddForm, showUpdateForm, toast, lastCall,
                   tableVars, watchVars>>

MountNext ==
    \/ LoadEffect
    \/ SaveEffect
    \/ LoadRender
    \/ (mount.pc = "ready" /\ ToggleAddForm)
    \/ (mount.pc = "ready" /\ AddChemicalSubmit)
    \/ (mount.pc = "ready" /\ ToggleUpdateForm)
    \/ (mount.pc = "ready" /\ UsageFormSubmit)

MountSpec == MountInit /\ [][MountNext]_vars

\* C11: when the saved blob is malformed at startup the load error is
\* swallowed (nothing is thrown out of the effect, nothing is loaded) and the
\* application proceeds with the default empty state: empty chemicals, empty
\* usage history, empty search term, filter by name.
C11_MalformedBlobGivesDefaults ==
    mount.prior = Malformed =>
        /\ mount.pc # "crashed"
        /\ mount.queued = <<>>
        /\ lastCall.n = 0 =>
              /\ state.chemicals = <<>>
              /\ state.usageHistory = <<>>
              /\ state.searchTerm = ""
              /\ state.filterBy = "name"

\* the mount over a malformed blob has completed, and the application goes on
C11_Witness ==
    /\ mount.prior = Malformed
    /\ mount.pc = "ready"
    /\ showAddForm

\* ---- the steps the claims speak of ----
chemicals == state.chemicals
usageHistory == state.usageHistory

\* this step is a call of addChemical / of updateInventory
AddStep == lastCall'.n = lastCall.n + 1 /\ lastCall'.op = "addChemical"
UsageStep == lastCall'.n = lastCall.n + 1 /\ lastCall'.op = "updateInventory"

Matches(id) == {i \in DOMAIN chemicals : chemicals[i].id = id}

\* C1: after any sequence of add-chemical and record-usage operations every
\* lot of the collection has 0 <= currentBalance <= quantity.
C1_BalanceInRange ==
    \A i \in DOMAIN chemicals :
        /\ 0 <= chemicals[i].currentBalance
        /\ chemicals[i].currentBalance <= chemicals[i].quantity

\* a usage has been recorded and has lowered a lot's balance
C1_Witness ==
    /\ Len(usageHistory) > 0
    /\ \E i \in DOMAIN chemicals :
          chemicals[i].currentBalance < chemicals[i].quantity

\* C2 (as claimed): after add-chemical the new lot is the last of the
\* collection with currentBalance = quantity, it is present exactly once, and
\* the lots present before are unchanged and keep their position.
C2_AddAppendsOnce ==
    [][AddStep =>
        LET new == Last(state'.chemicals) IN
        /\ Len(state'.chemicals) = Len(chemicals) + 1
        /\ new.id = ToString(lastCall'.now)
        /\ new.quantity = lastCall'.arg.quantity
        /\ new.currentBalance = new.quantity
        /\ Cardinality({i \in DOMAIN state'.chemicals :
                           state'.chemicals[i].id = new.id}) = 1
        /\ SubSeq(state'.chemicals, 1, Len(chemicals)) = chemicals]_vars

\* C3 (as claimed): no two lots of the collection share an identifier and no
\* two usage events of the history share an identifier.
C3_IdsUnique ==
    /\ \A i, j \in DOMAIN chemicals :
          chemicals[i].id = chemicals[j].id => i = j
    /\ \A i, j \in DOMAIN usageHistory :
          usageHistory[i].id = usageHistory[j].id => i = j

\* C4 (as claimed): record-usage whose reference matches a lot appends exactly
\* one usage event at the end of the history and sets that lot's
\* currentBalance to max(0, currentBalance - quantityUsed); every other lot
\* and every other field of that lot is unchanged.
C4_UsageDebitsOneLot ==
    [][(UsageStep /\ Matches(lastCall'.arg.chemicalId) # {}) =>
        LET usage == lastCall'.arg IN
        /\ state'.usageHistory =
              Append(usageHistory, NewUsage(usage, lastCall'.now))
        /\ Len(state'.chemicals) = Len(chemicals)
        /\ \E i \in Matches(usage.chemicalId) :
              /\ state'.chemicals[i] =
                    [chemicals[i] EXCEPT !.currentBalance =
                        Max(0, @ - usage.quantityUsed)]
              /\ \A j \in DOMAIN chemicals \ {i} :
                    state'.chemicals[j] = chemicals[j]]_vars

\* C5: a lot's currentBalance never increases, and it changes only in a
\* record-usage step whose reference is that lot's identifier.
C5_BalanceNeverIncreases ==
    [][/\ Len(state'.chemicals) >= Len(chemicals)
       /\ \A i \in DOMAIN chemicals :
             /\ state'.chemicals[i].currentBalance <= chemicals[i].currentBalance
             /\ state'.chemicals[i].currentBalance # chemicals[i].currentBalance
                   => /\ UsageStep
                      /\ lastCall'.arg.chemicalId = chemicals[i].id]_vars

\* a usage recorded against a lot has lowered its balance
C5_Witness ==
    \E i \in DOMAIN chemicals, k \in DOMAIN usageHistory :
        /\ usageHistory[k].chemicalId = chemicals[i].id
        /\ chemicals[i].currentBalance < chemicals[i].quantity
        /\ lastCall.op = "updateInventory"

\* C6: record-usage never produces a negative currentBalance, whatever
\* quantityUsed reaches it; when quantityUsed exceeds the referenced lot's
\* balance, the balance becomes exactly 0.
C6_FlooredAtZero ==
    [][UsageStep =>
        /\ Len(state'.chemicals) = Len(chemicals)
        /\ \A i \in DOMAIN chemicals :
              /\ state'.chemicals[i].currentBalance >= 0
              /\ (/\ chemicals[i].id = lastCall'.arg.chemicalId
                  /\ lastCall'.arg.quantityUsed > chemicals[i].currentBalance)
                    => state'.chemicals[i].currentBalance = 0]_vars

\* the last call used more than the lot it refers to ever held
C6_Witness ==
    /\ lastCall.op = "updateInventory"
    /\ \E i \in Matches(lastCall.arg.chemicalId) :
          /\ lastCall.arg.quantityUsed > chemicals[i].quantity
          /\ chemicals[i].currentBalance = 0

\* C7: record-usage whose reference matches no lot still appends the usage
\* event to the history, leaves every lot unchanged and signals no error
\* (the handler completes with its usual notification).
C7_UnknownLotStillRecorded ==
    [][(UsageStep /\ Matches(lastCall'.arg.chemicalId) = {}) =>
        /\ state'.usageHistory =
              Append(usageHistory, NewUsage(lastCall'.arg, lastCall'.now))
        /\ state'.chemicals = chemicals
        /\ toast' = "Inventory Updated"]_vars

\* the last call referred to no lot, with lots present
C7_Witness ==
    /\ lastCall.op = "updateInventory"
    /\ Matches(lastCall.arg.chemicalId) = {}
    /\ Len(chemicals) > 0

\* C8 (as claimed): every usage event accepted by the usage form has
\* quantityUsed > 0 and quantityUsed no greater than the currentBalance, at
\* submission, of the lot it refers to.
C8_UsageWithinBalance ==
    [][UsageStep =>
        /\ lastCall'.arg.quantityUsed > 0
        /\ Matches(lastCall'.arg.chemicalId) # {}
        /\ \A i \in Matches(lastCall'.arg.chemicalId) :
              lastCall'.arg.quantityUsed <= chemicals[i].currentBalance]_vars

\* C9: the lot collection and the usage history are append-only: every step
\* keeps every recorded usage event, unmodified and in order, and removes or
\* reorders no lot (only a lot's currentBalance may change).
C9_AppendOnly ==
    [][/\ Len(state'.usageHistory) >= Len(usageHistory)
       /\ SubSeq(state'.usageHistory, 1, Len(usageHistory)) = usageHistory
       /\ Len(state'.chemicals) >= Len(chemicals)
       /\ \A i \in DOMAIN chemicals :
             [state'.chemicals[i] EXCEPT !.currentBalance = 0] =
                [chemicals[i] EXCEPT !.currentBalance = 0]]_vars

\* two different usage events and two lots have been recorded, one after another
C9_Witness ==
    /\ Len(usageHistory) = 2
    /\ usageHistory[1] # usageHistory[2]
    /\ Len(chemicals) = 2
    /\ chemicals[1].id # chemicals[2].id

\* C10: after every add-chemical or record-usage the stored blob is the
\* current {chemicals, usageHistory}; a change of search term, filter mode or
\* dark mode alone writes nothing and changes neither collection.
C10_SavedAfterEveryMutation ==
    [][/\ (AddStep \/ UsageStep) =>
             /\ writes' = writes + 1
             /\ localStorage' =
                   JSONstringify(state'.chemicals, state'.usageHistory)
       /\ (\/ state'.searchTerm # state.searchTerm
           \/ state'.filterBy # state.filterBy
           \/ state'.isDarkMode # state.isDarkMode) =>
             /\ writes' = writes
             /\ localStorage' = localStorage
             /\ state'.chemicals = chemicals
             /\ state'.usageHistory = usageHistory]_vars

\* lots and usage are stored, and the three view settings have been changed
C10_Witness ==
    /\ Len(chemicals) > 0
    /\ Len(usageHistory) > 0
    /\ writes >= 2
    /\ localStorage = JSONstringify(chemicals, usageHistory)
    /\ state.searchTerm # ""
    /\ state.filterBy # "name"
    /\ state.isDarkMode

\* ---- InventoryTable and the alerts of ChemicalInventory ----
\* Strings are sequences of UTF-16 code units, so that toLowerCase, includes
\* and the < of the sort comparator are computed on them.
MaxRows == 2

\* "Acid" / "2023-12-31" / "2024-01-31" / "Lab", low stock at the boundary
LotA ==
    [name |-> <<65, 99, 105, 100>>,
     dateReceived |-> <<50, 48, 50, 51, 45, 49, 50, 45, 51, 49>>,
     expiryDate |-> <<50, 48, 50, 52, 45, 48, 49, 45, 51, 49>>,
     storageLocation |-> <<76, 97, 98>>,
     quantity |-> 10, currentBalance |-> 1, unit |-> <<76>>]
\* "acid" / "2024-01-01" / "2024-02-01" / "lab", just above the boundary
LotB ==
    [name |-> <<97, 99, 105, 100>>,
     dateReceived |-> <<50, 48, 50, 52, 45, 48, 49, 45, 48, 49>>,
     expiryDate |-> <<50, 48, 50, 52, 45, 48, 50, 45, 48, 49>>,
     storageLocation |-> <<108, 97, 98>>,
     quantity |-> 10, currentBalance |-> 2, unit |-> <<76>>]
\* "Base" / "2024-01-01T" (any string is a dateReceived) / "2024-01-30" / "Bay"
LotC ==
    [name |-> <<66, 97, 115, 101>>,
     dateReceived |-> <<50, 48, 50, 52, 45, 48, 49, 45, 48, 49, 84>>,
     expiryDate |-> <<50, 48, 50, 52, 45, 48, 49, 45, 51, 48>>,
     storageLocation |-> <<66, 97, 121>>,
     quantity |-> 3, currentBalance |-> 3, unit |-> <<76>>]
\* "acid" / "2023-12-31" / "2024-02-02" / "Bay", used up
LotD ==
    [name |-> <<97, 99, 105, 100>>,
     dateReceived |-> <<50, 48, 50, 51, 45, 49, 50, 45, 51, 49>>,
     expiryDate |-> <<50, 48, 50, 52, 45, 48, 50, 45, 48, 50>>,
     storageLocation |-> <<66, 97, 121>>,
     quantity |-> 10, currentBalance |-> 0, unit |-> <<76>>]

LotPool == {LotA, LotB, LotC, LotD}

\* "", "ac", "A", "t", "-01-3", "lab"
TableTerms == {<<>>, <<97, 99>>, <<65>>, <<116>>, <<45, 48, 49, 45, 51>>, <<108, 97, 98>>}
SortFields == {"name", "currentBalance", "expiryDate", "storageLocation"}

toLowerCase(s) ==
    [i \in DOMAIN s |-> IF s[i] >= 65 /\ s[i] <= 90 THEN s[i] + 32 ELSE s[i]]

includes(s, t) ==
    \E k \in 0..(Len(s) - Len(t)) : \A i \in 1..Len(t) : s[k + i] = t[i]

FilterCaseSensitive(chemical, searchTerm, filterBy) ==
    IF searchTerm = <<>> THEN TRUE
    ELSE CASE filterBy = "name" -> includes(chemical.name, searchTerm)
           [] filterBy = "date" ->
                 \/ includes(chemical.dateReceived, searchTerm)
                 \/ includes(chemical.expiryDate, searchTerm)
           [] filterBy = "location" ->
                 includes(chemical.storageLocation, searchTerm)
           [] OTHER -> TRUE
FilterDropsAllOnEmpty(chemical, searchTerm, filterBy) ==
    /\ searchTerm # <<>>
    /\ chemical.name # <<>>
FilterCallback(chemical, searchTerm, filterBy) ==
    IF searchTerm = <<>> THEN TRUE
    ELSE CASE filterBy = "name" ->
                 includes(toLowerCase(chemical.name), toLowerCase(searchTerm))
           [] filterBy = "date" ->
                 \/ includes(chemical.dateReceived, searchTerm)
                 \/ includes(chemical.expiryDate, searchTerm)
           [] filterBy = "location" ->
                 includes(toLowerCase(chemical.storageLocation),
                          toLowerCase(searchTerm))
           [] OTHER -> TRUE

filteredChemicals(lots, searchTerm, filterBy) ==
    SelectSeq(lots, LAMBDA c : FilterCallback(c, searchTerm, filterBy))

\* ---- sorting ----
\* < of two strings: the first differing code unit decides, a proper prefix
\* is smaller
StringLess(a, b) ==
    \E k \in 1..((IF Len(a) <= Len(b) THEN Len(a) ELSE Len(b)) + 1) :
        /\ \A i \in 1..(k - 1) : a[i] = b[i]
        /\ IF k > Len(a) THEN k <= Len(b)
           ELSE k <= Len(b) /\ a[k] < b[k]

\* aValue < bValue for the values of the field sortBy
ValueLess(a, b, sortBy) ==
    IF sortBy = "currentBalance" THEN a.currentBalance < b.currentBalance
    ELSE StringLess(a[sortBy], b[sortBy])

CompareAlwaysAscending(a, b, sortBy, sortOrder) ==
    IF ValueLess(a, b, sortBy) THEN 0 - 1
    ELSE IF ValueLess(b, a, sortBy) THEN 1
    ELSE 0
Compare(a, b, sortBy, sortOrder) ==
    IF ValueLess(a, b, sortBy) THEN (IF sortOrder = "asc" THEN 0 - 1 ELSE 1)
    ELSE IF ValueLess(b, a, sortBy) THEN (IF sortOrder = "asc" THEN 1 ELSE 0 - 1)
    ELSE 0

\* Array.prototype.sort is stable: an element goes behind every element of
\* the sorted prefix that does not compare greater
RECURSIVE InsertBeforeTies(_, _, _, _)
InsertBeforeTies(sorted, x, sortBy, sortOrder) ==
    IF sorted = <<>> THEN <<x>>
    ELSE IF Compare(Last(sorted), x, sortBy, sortOrder) >= 0
         THEN Append(InsertBeforeTies(SubSeq(sorted, 1, Len(sorted) - 1), x,
                                      sortBy, sortOrder), Last(sorted))
         ELSE Append(sorted, x)
RECURSIVE Insert(_, _, _, _)
Insert(sorted, x, sortBy, sortOrder) ==
    IF sorted = <<>> THEN <<x>>
    ELSE IF Compare(Last(sorted), x, sortBy, sortOrder) > 0
         THEN Append(Insert(SubSeq(sorted, 1, Len(sorted) - 1), x,
                            sortBy, sortOrder), Last(sorted))
         ELSE Append(sorted, x)

RECURSIVE sort(_, _, _)
sort(lots, sortBy, sortOrder) ==
    IF lots = <<>> THEN <<>>
    ELSE Insert(sort(SubSeq(lots, 1, Len(lots) - 1), sortBy, sortOrder),
                Last(lots), sortBy, sortOrder)

sortedChemicals(filtered, sortBy, sortOrder) == sort(filtered, sortBy, sortOrder)

\* ---- dates ----
\* new Date("YYYY-MM-DD").getTime(): midnight UTC of that day, here in hours
Digit(s, i) == s[i] - 48
DaysFromCivil(y, m, d) ==
    LET yy  == IF m <= 2 THEN y - 1 ELSE y
        era == yy \div 400
        yoe == yy - era * 400
        mp  == IF m > 2 THEN m - 3 ELSE m + 9
        doy == (153 * mp + 2) \div 5 + d - 1
        doe == yoe * 365 + yoe \div 4 - yoe \div 100 + doy
    IN  era * 146097 + doe - 719468
DateParse(s) ==
    24 * DaysFromCivil(
        1000 * Digit(s, 1) + 100 * Digit(s, 2) + 10 * Digit(s, 3) + Digit(s, 4),
        10 * Digit(s, 6) + Digit(s, 7),
        10 * Digit(s, 9) + Digit(s, 10))

\* new Date(): 2024-01-01 at 00:00 and at 20:00 UTC in hours since the
\* epoch, read in a browser 8 hours west of, at, and 8 hours east of UTC
Nows == {24 * DaysFromCivil(2024, 1, 1) + h : h \in {0, 20}}
Offsets == {0 - 8, 0, 8}

\* today.getTime() + 30 * 24 * 60 * 60 * 1000, in hours
thirtyDaysFromNow(d) == d.now + 30 * 24

\* ---- status of a lot ----
\* currentBalance <= quantity * 0.1, in tenths
isLowStockStrict(chemical) == chemical.currentBalance * 10 < chemical.quantity
isLowStock(chemical) == chemical.currentBalance * 10 <= chemical.quantity

isNearExpiry(chemical, d) == DateParse(chemical.expiryDate) <= thirtyDaysFromNow(d)

\* ---- alerts ----
RECURSIVE NumberToString(_)
NumberToString(n) ==
    IF n < 10 THEN <<48 + n>>
    ELSE Append(NumberToString(n \div 10), 48 + (n % 10))

\* `${chemical.name} expires on ${chemical.expiryDate}`
ExpiryAlert(chemical) ==
    chemical.name \o <<32, 101, 120, 112, 105, 114, 101, 115, 32, 111, 110, 32>> \o chemical.expiryDate
\* `${chemical.name} is low in stock (${chemical.currentBalance} ${chemical.unit})`
LowStockAlert(chemical) ==
    chemical.name \o <<32, 105, 115, 32, 108, 111, 119, 32, 105, 110, 32, 115, 116, 111, 99, 107, 32, 40>>
        \o NumberToString(chemical.currentBalance) \o <<32>> \o chemical.unit
        \o <<41>>

RECURSIVE getAlerts(_, _)
getAlerts(lots, d) ==
    IF lots = <<>> THEN <<>>
    ELSE LET chemical == Last(lots)
             alerts == getAlerts(SubSeq(lots, 1, Len(lots) - 1), d)
             pushed == IF DateParse(chemical.expiryDate) <= thirtyDaysFromNow(d)
                       THEN Append(alerts, ExpiryAlert(chemical))
                       ELSE alerts
         IN  IF chemical.currentBalance * 10 <= chemical.quantity
             THEN Append(pushed, LowStockAlert(chemical))
             ELSE pushed

\* the collection getAlerts iterates
AlertSourceFiltered(t) == filteredChemicals(t.chemicals, t.searchTerm, t.filterBy)
AlertSource(t) == t.chemicals

\* ---- one render of ChemicalInventory with its InventoryTable ----
Render(t, d) ==
    LET filtered == filteredChemicals(t.chemicals, t.searchTerm, t.filterBy)
        sorted == sortedChemicals(filtered, t.sortBy, t.sortOrder)
    IN  [filteredChemicals |-> filtered,
         sortedChemicals |-> sorted,
         badges |-> [i \in DOMAIN sorted |->
                        [lowStock |-> isLowStock(sorted[i]),
                         nearExpiry |-> isNearExpiry(sorted[i], d)]],
         alerts |-> getAlerts(AlertSource(t), d)]

TableInit ==
    /\ InventoryInit
    /\ MountDone
    /\ WatchIdle
    /\ today \in [now : Nows, offset : Offsets]
    /\ table = [chemicals |-> <<>>, searchTerm |-> <<>>, filterBy |-> "name",
                sortBy |-> "name", sortOrder |-> "asc"]
    /\ rendered = Render(table, today)
    /\ download = <<>>

TableRest ==
    UNCHANGED <<state, showAddForm, showUpdateForm, localStorage, writes,
                toast, lastCall, mount, today, download, watchVars>>

\* the parent re-renders the table with a new searchTerm
SearchTermProp(term) ==
    /\ table' = [table EXCEPT !.searchTerm = term]
    /\ rendered' = Render(table', today)
    /\ TableRest

\* the parent re-renders the table with a new filterBy
FilterByProp(mode) ==
    /\ table' = [table EXCEPT !.filterBy = mode]
    /\ rendered' = Render(table', today)
    /\ TableRest

\* the parent re-renders the table with one more lot
ChemicalsProp(lot) ==
    /\ Len(table.chemicals) < MaxRows
    /\ table' = [table EXCEPT !.chemicals = Append(@, lot)]
    /\ rendered' = Render(table', today)
    /\ TableRest

\* the sort state after handleSort(field)
SortControlKeepsOrder(t, field) ==
    IF t.sortBy = field
    THEN [t EXCEPT !.sortOrder = IF t.sortOrder = "asc" THEN "desc" ELSE "asc"]
    ELSE [t EXCEPT !.sortBy = field]
SortControl(t, field) ==
    IF t.sortBy = field
    THEN [t EXCEPT !.sortOrder = IF t.sortOrder = "asc" THEN "desc" ELSE "asc"]
    ELSE [t EXCEPT !.sortBy = field, !.sortOrder = "asc"]

handleSort(field) ==
    /\ table' = SortControl(table, field)
    /\ rendered' = Render(table', today)
    /\ TableRest

TableNext ==
    \/ \E term \in TableTerms : SearchTermProp(term)
    \/ \E mode \in FilterModes : FilterByProp(mode)
    \/ \E lot \in LotPool : ChemicalsProp(lot)
    \/ \E field \in SortFields : handleSort(field)

TableSpec == TableInit /\ [][TableNext]_vars

\* ---- the table claims ----
\* s is t with some elements left out, the others in their order
IsSubsequence(s, t) ==
    \E f \in [DOMAIN s -> DOMAIN t] :
        /\ \A i \in DOMAIN s : s[i] = t[f[i]]
        /\ \A i, j \in DOMAIN s : i < j => f[i] < f[j]

\* C12: filtering is narrowing: the visible lots are lots of the input
\* collection (never more of them than the input has), and an empty search
\* term shows exactly the input, whatever the filter mode.
C12_FilteringNarrows ==
    /\ IsSubsequence(rendered.filteredChemicals, table.chemicals)
    /\ Len(rendered.filteredChemicals) <= Len(table.chemicals)
    /\ table.searchTerm = <<>> =>
           rendered.filteredChemicals = table.chemicals

C12_Witness ==
    /\ table.searchTerm = <<>>
    /\ table.filterBy = "date"
    /\ Len(rendered.filteredChemicals) = MaxRows

\* two code units that are the same letter in either case, or the same unit
SameIgnoringCase(a, b) ==
    \/ a = b
    \/ a >= 65 /\ a <= 90 /\ b = a + 32
    \/ b >= 65 /\ b <= 90 /\ a = b + 32

SubstringIgnoringCase(term, s) ==
    \E from \in 1..(Len(s) + 1) :
        /\ from + Len(term) - 1 <= Len(s)
        /\ \A k \in 1..Len(term) : SameIgnoringCase(s[from + k - 1], term[k])

SubstringExact(term, s) ==
    \E from \in 1..(Len(s) + 1) :
        /\ from + Len(term) - 1 <= Len(s)
        /\ SubSeq(s, from, from + Len(term) - 1) = term

C13_Passes(lot) ==
    CASE table.filterBy = "name" -> SubstringIgnoringCase(table.searchTerm, lot.name)
      [] table.filterBy = "date" ->
            \/ SubstringExact(table.searchTerm, lot.dateReceived)
            \/ SubstringExact(table.searchTerm, lot.expiryDate)
      [] table.filterBy = "location" ->
            SubstringIgnoringCase(table.searchTerm, lot.storageLocation)

\* C13: with a non-empty search term the visible lots are exactly the lots
\* whose name (by-name, ignoring case), dateReceived or expiryDate (by-date,
\* case-sensitive) or storageLocation (by-location, ignoring case) contains
\* the term.
C13_FilterModes ==
    table.searchTerm # <<>> =>
        rendered.filteredChemicals = SelectSeq(table.chemicals, C13_Passes)

\* "A" finds "acid" and "Base" by name
C13_Witness ==
    /\ table.chemicals = <<LotB, LotC>>
    /\ table.searchTerm = <<65>>
    /\ table.filterBy = "name"
    /\ rendered.filteredChemicals = <<LotB, LotC>>

IsPermutation(s, t) ==
    /\ Len(s) = Len(t)
    /\ \E p \in [DOMAIN s -> DOMAIN t] :
           /\ \A i, j \in DOMAIN s : i # j => p[i] # p[j]
           /\ \A i \in DOMAIN s : s[i] = t[p[i]]

\* the natural order of the sort field: numbers by value, strings by code unit
NotAfter(a, b) == ~ValueLess(b, a, table.sortBy)

SortStep == table'.sortBy # table.sortBy \/ table'.sortOrder # table.sortOrder

\* C14: the sorted view is a permutation of the filtered lots, adjacent lots
\* are in non-decreasing order of the sort field when ascending and in
\* non-increasing order when descending, and a sort leaves the lot collection
\* and the filtered lots as they were.
C14_SortedView ==
    /\ [](/\ IsPermutation(rendered.sortedChemicals, rendered.filteredChemicals)
          /\ \A i \in 1..(Len(rendered.sortedChemicals) - 1) :
                 IF table.sortOrder = "asc"
                 THEN NotAfter(rendered.sortedChemicals[i],
                               rendered.sortedChemicals[i + 1])
                 ELSE NotAfter(rendered.sortedChemicals[i + 1],
                               rendered.sortedChemicals[i]))
    /\ [][SortStep =>
             /\ table'.chemicals = table.chemicals
             /\ rendered'.filteredChemicals = rendered.filteredChemicals]_vars

\* two lots shown in the reverse of their collection order, balances descending
C14_Witness ==
    /\ table.chemicals = <<LotA, LotC>>
    /\ table.sortBy = "currentBalance"
    /\ table.sortOrder = "desc"
    /\ rendered.sortedChemicals = <<LotC, LotA>>

\* C15: sorting is idempotent: sorting the sorted view again by the same key
\* and direction gives the same sequence.
C15_SortIdempotent ==
    sortedChemicals(rendered.sortedChemicals, table.sortBy, table.sortOrder)
        = rendered.sortedChemicals

\* two different lots with the same name, sorted by name
C15_Witness ==
    /\ table.sortBy = "name"
    /\ rendered.sortedChemicals = <<LotD, LotB>>

\* ---- the alert claims ----
Shown(alert) == \E i \in DOMAIN rendered.alerts : rendered.alerts[i] = alert

\* C16: a lot is low-stock exactly when its balance is at most a tenth of its
\* quantity, the boundary included, in the table's badge and in the alert
\* list alike; a lot whose balance is its whole positive quantity is not.
C16_LowStock ==
    /\ \A i \in DOMAIN rendered.sortedChemicals :
           LET lot == rendered.sortedChemicals[i]
           IN  /\ rendered.badges[i].lowStock
                      <=> lot.currentBalance * 10 <= lot.quantity
               /\ lot.currentBalance = lot.quantity /\ lot.quantity > 0
                      => ~rendered.badges[i].lowStock
    /\ \A i \in DOMAIN table.chemicals :
           LET lot == table.chemicals[i]
           IN  /\ Shown(LowStockAlert(lot))
                      <=> lot.currentBalance * 10 <= lot.quantity
               /\ lot.currentBalance = lot.quantity /\ lot.quantity > 0
                      => ~Shown(LowStockAlert(lot))

\* a lot at the boundary (1 of 10) flagged next to a full lot that is not
C16_Witness ==
    /\ rendered.sortedChemicals = <<LotA, LotC>>
    /\ rendered.badges[1].lowStock
    /\ ~rendered.badges[2].lowStock
    /\ Shown(LowStockAlert(LotA))

\* the calendar date the browser shows for now, in days since the epoch
LocalDate(d) == (d.now + d.offset) \div 24
DaysAhead(lot) == DateParse(lot.expiryDate) \div 24 - LocalDate(today)

\* C17: a lot expiring exactly 30 days after the current date is flagged
\* near-expiry and a lot expiring 31 days after it is not, at every time of
\* day, in the table's badge and in the alert list alike.
C17_NearExpiryBoundary ==
    /\ \A i \in DOMAIN rendered.sortedChemicals :
           LET lot == rendered.sortedChemicals[i]
           IN  /\ DaysAhead(lot) = 30 => rendered.badges[i].nearExpiry
               /\ DaysAhead(lot) = 31 => ~rendered.badges[i].nearExpiry
    /\ \A i \in DOMAIN table.chemicals :
           LET lot == table.chemicals[i]
           IN  /\ DaysAhead(lot) = 30 => Shown(ExpiryAlert(lot))
               /\ DaysAhead(lot) = 31 => ~Shown(ExpiryAlert(lot))

RECURSIVE C18_Entries(_)
C18_Entries(lots) ==
    IF lots = <<>> THEN <<>>
    ELSE (IF isNearExpiry(Head(lots), today)
          THEN <<ExpiryAlert(Head(lots))>> ELSE <<>>)
         \o (IF isLowStock(Head(lots))
             THEN <<LowStockAlert(Head(lots))>> ELSE <<>>)
         \o C18_Entries(Tail(lots))

\* C18: the alert list is made from the whole lot collection, whatever the
\* search term and filter mode: lot by lot in collection order, an expiry
\* alert iff the lot is near-expiry, then a low-stock alert iff it is
\* low-stock.
C18_AlertsOverAllLots == rendered.alerts = C18_Entries(table.chemicals)

\* the alert of a lot the filter hides, before the two alerts of the next lot
C18_Witness ==
    /\ table.chemicals = <<LotC, LotA>>
    /\ rendered.filteredChemicals = <<LotA>>
    /\ rendered.alerts =
           <<ExpiryAlert(LotC), ExpiryAlert(LotA), LowStockAlert(LotA)>>

\* ---- GPMCalculator: the stopwatch and the flow log ----
\* ticks followed from each starting time
MaxTime == 3
\* documents the flowReadings collection holds at most
MaxDocs == 1
\* calls to the store in flight at once
MaxCalls == 1

\* the two GPMCalculator sources of the repository
Components == {"GPMCalculator", "part_001"}
Current == component = "GPMCalculator"

\* elapsed centiseconds a stopwatch is found at: fresh, and just under half a
\* second, one second, ten seconds, one minute, ten minutes and one hour
StartTimes == {0, 47, 97, 997, 5997, 59997, 359997}

\* "", "a", " ab"
OperatorNames == {<<>>, <<97>>, <<32, 97, 98>>}
Deepwell9Inputs == {NoDeepwell, [text |-> "5", number |-> 5],
                    [text |-> "-1", number |-> 0 - 1]}
Deepwell10Inputs == {NoDeepwell, [text |-> "-1", number |-> 0 - 1]}
NotesInputs == {"", "n"}

\* (1 / (time / 100)) * 3600 * 4.4 and Number(x.toFixed(2)), in hundredths:
\* toFixed takes the nearest hundredth, the larger one of two
GPMTruncated(t) ==
    IF t > 0 THEN (100 * 3600 * 440) \div t ELSE 0
GPM(t) ==
    IF t > 0 THEN (2 * (100 * 3600 * 440) + t) \div (2 * t) ELSE 0

\* the stopwatch effect over a render in which isRunning went from was to
\* now: the cleanup clears the interval of the last run, the body sets one
StopwatchEffectNoCleanup(was, now, ids) ==
    IF was = now THEN ids
    ELSE ids + (IF now THEN 1 ELSE 0)
StopwatchEffect(was, now, ids) ==
    IF was = now THEN ids
    ELSE (IF was THEN ids - 1 ELSE ids) + (IF now THEN 1 ELSE 0)

\* setTime(0); setIsRunning(false); setGPM(0)
ResetKeepsRunning(running) == [time |-> 0, isRunning |-> running, gpm |-> 0]
Reset(running) == [time |-> 0, isRunning |-> FALSE, gpm |-> 0]

RECURSIVE trimStart(_)
trimStart(s) == IF s # <<>> /\ Head(s) = 32 THEN trimStart(Tail(s)) ELSE s
RECURSIVE trimEnd(_)
trimEnd(s) ==
    IF s # <<>> /\ Last(s) = 32 THEN trimEnd(SubSeq(s, 1, Len(s) - 1)) ELSE s
trim(s) == trimEnd(trimStart(s))

\* the keys of validationErrors; a number input never holds a value that
\* Number() turns into NaN
validateInputs(name, d9, d10) ==
    (IF trim(name) = <<>> \/ Len(trim(name)) < 2 THEN {"operatorName"} ELSE {})
    \cup (IF d9.text # "" /\ d9.number < 0 THEN {"deepwell9"} ELSE {})
    \cup (IF d10.text # "" /\ d10.number < 0 THEN {"deepwell10"} ELSE {})

\* the check autoLogReading makes before it builds the reading
Rejected ==
    IF Current
    THEN validateInputs(operatorName, deepwell9, deepwell10) # {}
    ELSE trim(operatorName) = <<>>

\* the reading autoLogReading builds from the values of its render and hands
\* to addDoc; duration is kept in centiseconds (time / 100 seconds), gpm in
\* hundredths
NewReading ==
    [duration |-> time, gpm |-> gpm, operatorName |-> trim(operatorName),
     deepwell9 |-> deepwell9.number, deepwell10 |-> deepwell10.number,
     notes |-> notes]

\* documents are known by their ids, handed out in the order of their
\* timestamps; the log shows the newest first
RECURSIVE NewestFirst(_)
NewestFirst(ids) ==
    IF ids = {} THEN <<>>
    ELSE LET newest == CHOOSE m \in ids : \A n \in ids : n <= m
         IN  <<newest>> \o NewestFirst(ids \ {newest})
NewId(ids) == IF ids = {} THEN 1 ELSE NewestFirst(ids)[1] + 1

InFlight(op) == {i \in DOMAIN calls : calls[i].op = op}
StillInFlight(i) == calls
Without(i) == SubSeq(calls, 1, i - 1) \o SubSeq(calls, i + 1, Len(calls))

\* setIsLoading / setIsSending: part_001 has neither flag
Flag(value) == Current /\ value

\* the component after its mount effects, the first loadFlowLog in flight
WatchInit ==
    /\ InventoryInit
    /\ MountDone
    /\ TableIdle
    /\ component \in Components
    /\ time = 0
    /\ isRunning = FALSE
    /\ gpm = 0
    /\ intervalIds = 0
    /\ gpmDue = FALSE
    /\ operatorName = <<>>
    /\ deepwell9 = NoDeepwell
    /\ deepwell10 = NoDeepwell
    /\ notes = ""
    /\ flowReadings \in {{}, {1}}
    /\ flowLog = <<>>
    /\ calls = <<[op |-> "getDocs", caller |-> "mount"]>>
    /\ isLoading = Flag(TRUE)
    /\ isSending = FALSE

WatchRest ==
    UNCHANGED <<state, showAddForm, showUpdateForm, localStorage, writes,
                toast, lastCall, mount, tableVars, component>>

StoreRest == UNCHANGED <<flowLog, flowReadings, calls, isSending>>

\* room for one more call, and for one more document
Room == Len(calls) < MaxCalls
DocRoom == NewId(flowReadings) + Cardinality(InFlight("addDoc")) <= MaxDocs

\* the interval callback: setTime(time => time + 1); the GPM effect of the
\* new time is still to run
Tick ==
    /\ intervalIds > 0
    /\ \E s \in StartTimes : time >= s /\ time < s + MaxTime
    /\ time' = time + 1
    /\ gpmDue' = TRUE
    /\ UNCHANGED <<isRunning, gpm, intervalIds, isLoading, fieldVars>>
    /\ StoreRest
    /\ WatchRest

\* the GPM effect, run after the render of a tick
GpmEffect ==
    /\ gpmDue
    /\ gpm' = GPM(time)
    /\ gpmDue' = FALSE
    /\ UNCHANGED <<time, isRunning, intervalIds, isLoading, fieldVars>>
    /\ StoreRest
    /\ WatchRest

\* the Start button (disabled while running or loading)
startStopwatch ==
    /\ ~isRunning
    /\ ~isLoading
    /\ isRunning' = TRUE
    /\ intervalIds' = StopwatchEffect(isRunning, TRUE, intervalIds)
    /\ gpm' = GPM(time)
    /\ gpmDue' = FALSE
    /\ UNCHANGED <<time, isLoading, fieldVars>>
    /\ StoreRest
    /\ WatchRest

\* autoLogReading gets as far as addDoc: time is not 0 and the fields pass
AutoLogsAtZero == ~Rejected
AutoLogs == time # 0 /\ ~Rejected

\* the Stop button (disabled while stopped or loading): with time > 0
\* autoLogReading runs, and unless it rejects the fields it sends NewReading,
\* the reading of its render, to addDoc
stopStopwatch ==
    /\ isRunning
    /\ ~isLoading
    /\ AutoLogs => Room /\ DocRoom
    /\ isRunning' = FALSE
    /\ intervalIds' = StopwatchEffect(isRunning, FALSE, intervalIds)
    /\ gpm' = GPM(time)
    /\ gpmDue' = FALSE
    /\ IF AutoLogs
       THEN /\ calls' = Append(calls, [op |-> "addDoc"])
            /\ isLoading' = Flag(TRUE)
       ELSE UNCHANGED <<calls, isLoading>>
    /\ UNCHANGED <<time, fieldVars, flowLog, flowReadings, isSending>>
    /\ WatchRest

\* the Reset button (never disabled)
resetStopwatch ==
    /\ time' = Reset(isRunning).time
    /\ isRunning' = Reset(isRunning).isRunning
    /\ intervalIds' = StopwatchEffect(isRunning, isRunning', intervalIds)
    /\ gpm' = Reset(isRunning).gpm
    /\ gpmDue' = FALSE
    /\ UNCHANGED <<isLoading, fieldVars>>
    /\ StoreRest
    /\ WatchRest

TimerRest == UNCHANGED <<time, isRunning, gpm, intervalIds, gpmDue>>

setOperatorName(value) ==
    /\ value # operatorName
    /\ operatorName' = value
    /\ UNCHANGED <<deepwell9, deepwell10, notes, isLoading>>
    /\ TimerRest /\ StoreRest /\ WatchRest

setDeepwell9(value) ==
    /\ value # deepwell9
    /\ deepwell9' = value
    /\ UNCHANGED <<operatorName, deepwell10, notes, isLoading>>
    /\ TimerRest /\ StoreRest /\ WatchRest

setDeepwell10(value) ==
    /\ value # deepwell10
    /\ deepwell10' = value
    /\ UNCHANGED <<operatorName, deepwell9, notes, isLoading>>
    /\ TimerRest /\ StoreRest /\ WatchRest

setNotes(value) ==
    /\ value # notes
    /\ notes' = value
    /\ UNCHANGED <<operatorName, deepwell9, deepwell10, isLoading>>
    /\ TimerRest /\ StoreRest /\ WatchRest

\* addDoc(collection(db, 'flowReadings'), reading) settles: autoLogReading
\* goes on to await loadFlowLog(), or catches and ends
AddDocSettled(i, ok) ==
    /\ calls[i].op = "addDoc"
    /\ IF ok
       THEN /\ NewId(flowReadings) <= MaxDocs
            /\ flowReadings' = flowReadings \cup {NewId(flowReadings)}
            /\ calls' = [calls EXCEPT
                            ![i] = [op |-> "getDocs", caller |-> "autoLogReading"]]
            /\ isLoading' = Flag(TRUE)
       ELSE /\ calls' = Without(i)
            /\ isLoading' = FALSE
            /\ UNCHANGED flowReadings
    /\ UNCHANGED <<flowLog, isSending, fieldVars>>
    /\ TimerRest
    /\ WatchRest

\* getDocs settles in loadFlowLog, which catches its own failure; then the
\* rest of autoLogReading runs when it was the caller: the fields are
\* cleared (part_001: the notes only) and resetStopwatch() is called
GetDocsSettled(i, ok) ==
    /\ calls[i].op = "getDocs"
    /\ flowLog' = IF ok THEN NewestFirst(flowReadings) ELSE flowLog
    /\ calls' = Without(i)
    /\ isLoading' = FALSE
    /\ IF calls[i].caller = "autoLogReading"
       THEN /\ notes' = ""
            /\ deepwell9' = IF Current THEN NoDeepwell ELSE deepwell9
            /\ deepwell10' = IF Current THEN NoDeepwell ELSE deepwell10
            /\ time' = Reset(isRunning).time
            /\ isRunning' = Reset(isRunning).isRunning
            /\ intervalIds' = StopwatchEffect(isRunning, isRunning', intervalIds)
            /\ gpm' = Reset(isRunning).gpm
            /\ gpmDue' = FALSE
            /\ UNCHANGED operatorName
       ELSE /\ UNCHANGED fieldVars
            /\ TimerRest
    /\ UNCHANGED <<flowReadings, isSending>>
    /\ WatchRest

\* the Clear All button (GPMCalculator: disabled while loading or with an
\* empty log): the readings of the log are deleted one after the other
clearAllData ==
    /\ Current => ~isLoading /\ flowLog # <<>>
    /\ Room
    /\ calls' = Append(calls, IF flowLog = <<>>
                              THEN [op |-> "getDocs", caller |-> "clearAllData"]
                              ELSE [op |-> "deleteDoc", rest |-> flowLog])
    /\ isLoading' = Flag(TRUE)
    /\ UNCHANGED <<flowLog, flowReadings, isSending, fieldVars>>
    /\ TimerRest
    /\ WatchRest

\* one deleteDoc settles: the loop goes on, ends with loadFlowLog(), or
\* clearAllData catches and ends
DeleteDocSettled(i, ok) ==
    /\ calls[i].op = "deleteDoc"
    /\ IF ok
       THEN /\ flowReadings' = flowReadings \ {Head(calls[i].rest)}
            /\ calls' = [calls EXCEPT ![i] =
                            IF Len(calls[i].rest) > 1
                            THEN [op |-> "deleteDoc", rest |-> Tail(calls[i].rest)]
                            ELSE [op |-> "getDocs", caller |-> "clearAllData"]]
            /\ isLoading' = Flag(TRUE)
       ELSE /\ calls' = Without(i)
            /\ isLoading' = FALSE
            /\ UNCHANGED flowReadings
    /\ UNCHANGED <<flowLog, isSending, fieldVars>>
    /\ TimerRest
    /\ WatchRest

\* the Send to Admin button (GPMCalculator: disabled while sending or with an
\* empty log)
sendToAdmin ==
    /\ Current => ~isSending /\ flowLog # <<>>
    /\ Room
    /\ calls' = Append(calls, [op |-> "addReport"])
    /\ isSending' = Flag(TRUE)
    /\ UNCHANGED <<flowLog, flowReadings, isLoading, fieldVars>>
    /\ TimerRest
    /\ WatchRest

\* addDoc(collection(db, 'adminReports'), ...) settles
AddReportSettled(i, ok) ==
    /\ calls[i].op = "addReport"
    /\ calls' = Without(i)
    /\ isSending' = FALSE
    /\ UNCHANGED <<flowLog, flowReadings, isLoading, fieldVars>>
    /\ TimerRest
    /\ WatchRest

WatchNext ==
    \/ Tick
    \/ GpmEffect
    \/ startStopwatch
    \/ stopStopwatch
    \/ resetStopwatch
    \/ \E value \in OperatorNames : setOperatorName(value)
    \/ \E value \in Deepwell9Inputs : setDeepwell9(value)
    \/ \E value \in Deepwell10Inputs : setDeepwell10(value)
    \/ \E value \in NotesInputs : setNotes(value)
    \/ \E i \in DOMAIN calls, ok \in BOOLEAN : AddDocSettled(i, ok)
    \/ \E i \in DOMAIN calls, ok \in BOOLEAN : GetDocsSettled(i, ok)
    \/ clearAllData
    \/ \E i \in DOMAIN calls, ok \in BOOLEAN : DeleteDocSettled(i, ok)
    \/ sendToAdmin
    \/ \E i \in DOMAIN calls, ok \in BOOLEAN : AddReportSettled(i, ok)

WatchSpec == WatchInit /\ [][WatchNext]_vars

\* the stopwatch alone, found running or stopped at some elapsed time, for
\* the flow-rate formula
GpmInit ==
    /\ InventoryInit
    /\ MountDone
    /\ TableIdle
    /\ component \in Components
    /\ time \in StartTimes
    /\ isRunning \in BOOLEAN
    /\ gpm = GPM(time)
    /\ intervalIds = IF isRunning THEN 1 ELSE 0
    /\ gpmDue = FALSE
    /\ isLoading = FALSE
    /\ operatorName = <<>>
    /\ deepwell9 = NoDeepwell
    /\ deepwell10 = NoDeepwell
    /\ notes = ""
    /\ flowLog = <<>>
    /\ flowReadings = {}
    /\ calls = <<>>
    /\ isSending = FALSE

GpmNext ==
    \/ Tick
    \/ GpmEffect
    \/ startStopwatch
    \/ resetStopwatch

GpmSpec == GpmInit /\ [][GpmNext]_vars

\* ---- ExportUtils.exportToExcel ----
\* texts are sequences of character codes; 10 is the line feed, 34 the quote
\* and 44 the comma
Title == <<67, 72, 69, 77, 73, 67, 65, 76, 32, 73, 78, 86, 69, 78, 84, 79, 82, 89, 32, 82, 69, 80, 79, 82, 84>>
GeneratedOn == <<71, 101, 110, 101, 114, 97, 116, 101, 100, 32, 111, 110, 58, 32>>
CurrentInventory == <<67, 85, 82, 82, 69, 78, 84, 32, 73, 78, 86, 69, 78, 84, 79, 82, 89, 58>>
UsageHistoryTitle == <<85, 83, 65, 71, 69, 32, 72, 73, 83, 84, 79, 82, 89, 58>>
chemicalHeaders ==
    <<<<67, 104, 101, 109, 105, 99, 97, 108, 32, 78, 97, 109, 101>>,
      <<67, 117, 114, 114, 101, 110, 116, 32, 66, 97, 108, 97, 110, 99, 101>>,
      <<85, 110, 105, 116>>,
      <<79, 114, 105, 103, 105, 110, 97, 108, 32, 81, 117, 97, 110, 116, 105, 116, 121>>,
      <<83, 117, 112, 112, 108, 105, 101, 114>>,
      <<68, 97, 116, 101, 32, 82, 101, 99, 101, 105, 118, 101, 100>>,
      <<69, 120, 112, 105, 114, 121, 32, 68, 97, 116, 101>>,
      <<83, 116, 111, 114, 97, 103, 101, 32, 76, 111, 99, 97, 116, 105, 111, 110>>,
      <<82, 101, 109, 97, 114, 107, 115>>>>
usageHeaders ==
    <<<<67, 104, 101, 109, 105, 99, 97, 108, 32, 78, 97, 109, 101>>,
      <<81, 117, 97, 110, 116, 105, 116, 121, 32, 85, 115, 101, 100>>,
      <<68, 97, 116, 101, 32, 85, 115, 101, 100>>,
      <<80, 101, 114, 115, 111, 110, 32, 73, 110, 32, 67, 104, 97, 114, 103, 101>>,
      <<82, 101, 109, 97, 114, 107, 115>>>>

\* new Date().toLocaleString(), which depends on the locale: "1/2/2024" and
\* "2.1.2024, 08:00"
Stamps == {<<49, 47, 50, 47, 50, 48, 50, 52>>, <<50, 46, 49, 46, 50, 48, 50, 52, 44, 32, 48, 56, 58, 48, 48>>}

\* an optional remarks field is <<>> when undefined and <<text>> otherwise
OrEmpty(remarks) == IF remarks = <<>> THEN <<>> ELSE remarks[1]

\* lots and usage events as the forms store them: "Acid" of "Co" without
\* remarks; "Base" of "C, D" with remarks ''; 'A"' of "Co" with remarks "ok";
\* "acid" of "Co" with the two-line remarks "a" / "b"
ExportLots ==
    {[supplier |-> <<67, 111>>, remarks |-> <<>>] @@ LotA,
     [supplier |-> <<67, 44, 32, 68>>, remarks |-> <<<<>>>>] @@ LotC,
     [supplier |-> <<67, 111>>, remarks |-> <<<<111, 107>>>>] @@ [LotB EXCEPT !.name = <<65, 34>>],
     [supplier |-> <<67, 111>>, remarks |-> <<<<97, 10, 98>>>>] @@ LotD}
ExportUsages ==
    {[chemicalName |-> <<65, 99, 105, 100>>, quantityUsed |-> 2,
      dateUsed |-> <<50, 48, 50, 52, 45, 48, 49, 45, 48, 50>>, personInCharge |-> <<111, 112>>, remarks |-> <<>>],
     [chemicalName |-> <<65, 34>>, quantityUsed |-> 10,
      dateUsed |-> <<50, 48, 50, 52, 45, 48, 49, 45, 48, 51>>, personInCharge |-> <<79, 44, 32, 80>>, remarks |-> <<<<120>>>>]}

RECURSIVE join(_, _)
join(cells, separator) ==
    IF cells = <<>> THEN <<>>
    ELSE IF Len(cells) = 1 THEN cells[1]
    ELSE cells[1] \o separator \o join(Tail(cells), separator)

\* `"${cell}"`
QuoteNone(cell) == cell
Quote(cell) == <<34>> \o cell \o <<34>>

chemicalRow(chemical) ==
    <<chemical.name, NumberToString(chemical.currentBalance), chemical.unit,
      NumberToString(chemical.quantity), chemical.supplier,
      chemical.dateReceived, chemical.expiryDate, chemical.storageLocation,
      OrEmpty(chemical.remarks)>>
usageRow(usage) ==
    <<usage.chemicalName, NumberToString(usage.quantityUsed), usage.dateUsed,
      usage.personInCharge, OrEmpty(usage.remarks)>>

\* [headers.join(','), ...rows.map(row => row.map(quote).join(','))].join('\n')
CSV(headers, rows) ==
    join(<<join(headers, <<44>>)>>
             \o [i \in DOMAIN rows |->
                    join([j \in DOMAIN rows[i] |-> Quote(rows[i][j])], <<44>>)],
         <<10>>)

fullCSV(lots, usages, stamp) ==
    join(<<Title,
           GeneratedOn \o stamp,
           <<>>,
           CurrentInventory,
           CSV(chemicalHeaders, [i \in DOMAIN lots |-> chemicalRow(lots[i])]),
           <<>>,
           UsageHistoryTitle,
           CSV(usageHeaders, [i \in DOMAIN usages |-> usageRow(usages[i])])>>,
         <<10>>)

UpTo(S, n) == UNION {[1..k -> S] : k \in 0..n}

\* the inventory with the lots and usage events of earlier sessions
ExportInit ==
    /\ \E lots \in UpTo(ExportLots, MaxRows), usages \in UpTo(ExportUsages, MaxRows) :
           /\ state = [InitialState EXCEPT !.chemicals = lots,
                                           !.usageHistory = usages]
           /\ localStorage = JSONstringify(lots, usages)
    /\ showAddForm = FALSE
    /\ showUpdateForm = FALSE
    /\ writes = 0
    /\ toast = ""
    /\ lastCall = [n |-> 0, op |-> "none", arg |-> [name |-> ""], now |-> 0]
    /\ MountDone
    /\ TableIdle
    /\ WatchIdle

\* the Export button: the document handed to the browser as a download
exportToExcel(stamp) ==
    /\ download' = fullCSV(state.chemicals, state.usageHistory, stamp)
    /\ toast' = "Export Successful"
    /\ UNCHANGED <<state, showAddForm, showUpdateForm, localStorage, writes,
                   lastCall, mount, table, rendered, today, watchVars>>

ExportNext == \E stamp \in Stamps : exportToExcel(stamp)

ExportSpec == ExportInit /\ [][ExportNext]_vars

\* ---- the stopwatch claims ----
\* C19: once the GPM effect has run, the flow rate shown for elapsed time t
\* (centiseconds) is 0 for t = 0 and otherwise 1584000 / t rounded to the
\* nearest hundredth (gpm is kept in hundredths); one hour gives 4.40 and one
\* second gives 15840.00.
C19_FlowRate ==
    ~gpmDue =>
        /\ time = 0 => gpm = 0
        /\ time > 0 =>
               /\ 2 * (gpm * time - 158400000) <= time
               /\ 2 * (158400000 - gpm * time) < time
        /\ time = 360000 => gpm = 440
        /\ time = 100 => gpm = 1584000

\* the stopwatch ticked up to one hour and the rate was recomputed
C19_Witness ==
    /\ isRunning
    /\ time = 360000
    /\ ~gpmDue
    /\ gpm = 440

\* C20: elapsed time changes only by a tick of +1 or by a reset to 0; a tick
\* happens only while the stopwatch is running with its single interval
\* active; at most one interval is ever active, none while stopped, so a
\* stopped stopwatch does not advance until it is started again.
C20_TicksOnlyWhileRunning ==
    /\ [](/\ intervalIds <= 1
          /\ intervalIds = 1 <=> isRunning)
    /\ [][/\ time' # time =>
                \/ time' = time + 1 /\ isRunning /\ intervalIds = 1
                \/ time' = 0
          /\ ~isRunning => time' <= time]_vars

\* stopped after three ticks, the interval cleared and the time retained
C20_Witness ==
    /\ ~isRunning
    /\ intervalIds = 0
    /\ time = 3

\* ---- the flow log claims ----
\* C21: a click on Reset, with the stopwatch running or stopped, leaves
\* elapsed time 0, flow rate 0, the stopwatch stopped and no interval active;
\* a stopped stopwatch at 0 stays at 0, with flow rate 0, until it is started.
C21_ResetZeroes ==
    /\ [][resetStopwatch =>
              /\ time' = 0
              /\ gpm' = 0
              /\ ~gpmDue'
              /\ ~isRunning'
              /\ intervalIds' = 0]_vars
    /\ [][time = 0 /\ ~isRunning /\ ~isRunning' => time' = 0 /\ gpm' = 0]_vars

\* the stopwatch was stopped at a non-zero time, its reading is still on the
\* way to the store, and Reset has zeroed the display meanwhile
C21_Witness ==
    /\ InFlight("addDoc") # {}
    /\ Current
    /\ time = 0
    /\ gpm = 0
    /\ ~isRunning

AddDocs(cs) == Cardinality({i \in DOMAIN cs : cs[i].op = "addDoc"})

\* C22: a reading goes to addDoc only in a click on Stop, one reading per
\* click, and its duration is greater than 0; a stop at elapsed time 0 sends
\* nothing, a stop at a non-zero time makes one attempt (which sends the
\* reading unless the fields are rejected); the store gains a reading only
\* when such a call succeeds, one reading per call.
C22_PositiveDuration ==
    [][/\ AddDocs(calls') > AddDocs(calls) =>
              /\ stopStopwatch
              /\ NewReading.duration > 0
       /\ stopStopwatch =>
              /\ time = 0 => calls' = calls
              /\ AddDocs(calls') =
                     AddDocs(calls) + (IF time # 0 /\ ~Rejected THEN 1 ELSE 0)
       /\ flowReadings' # flowReadings /\ flowReadings \subseteq flowReadings' =>
              /\ Cardinality(flowReadings') = Cardinality(flowReadings) + 1
              /\ AddDocs(calls') = AddDocs(calls) - 1]_vars

\* part_001 stopped after two ticks, the reading of 0.02 s on its way
C22_Witness ==
    /\ component = "part_001"
    /\ InFlight("addDoc") # {}
    /\ ~isRunning
    /\ time = 2
    /\ NewReading.duration = 2

\* C23: every reading that goes to addDoc carries an operator name that is,
\* trimmed, at least 2 characters long (so not empty), and deepwell values
\* that are both 0 or more.
C23_ValidReadings ==
    [][AddDocs(calls') > AddDocs(calls) =>
           /\ Len(NewReading.operatorName) >= 2
           /\ NewReading.deepwell9 >= 0
           /\ NewReading.deepwell10 >= 0]_vars

\* call i of the flow app settles with a failure: the first getDocs, the
\* addDoc of a reading, a deleteDoc of Clear All, the addDoc of a report
Fails(i) ==
    \/ GetDocsSettled(i, FALSE) /\ calls[i].caller = "mount"
    \/ AddDocSettled(i, FALSE)
    \/ DeleteDocSettled(i, FALSE)
    \/ AddReportSettled(i, FALSE)

\* C24: when the initial load, the create of an auto-log, a delete of Clear
\* All or the send of a report fails, the reading list, the elapsed time, the
\* run state and the form fields stay as they were, the call leaves the calls
\* in flight and no call is made in its place, and the flag the call had
\* raised is false afterwards: isLoading for load, create and delete,
\* isSending for the report (which leaves isLoading alone).
C24_FailureKeepsState ==
    [][\A i \in DOMAIN calls :
           Fails(i) =>
               /\ UNCHANGED <<flowLog, time, isRunning, gpm, fieldVars>>
               /\ Len(calls') = Len(calls) - 1
               /\ \A op \in {"getDocs", "addDoc", "deleteDoc", "addReport"} :
                      Cardinality({j \in DOMAIN calls' : calls'[j].op = op})
                          <= Cardinality(InFlight(op))
               /\ IF calls[i].op = "addReport"
                  THEN ~isSending' /\ isLoading' = isLoading
                  ELSE ~isLoading']_vars

\* GPMCalculator.tsx with a valid reading of 0.02 s and an empty store: its
\* addDoc failed, the stopwatch and the fields are as they were at the stop,
\* and nothing is loading
C24_Witness ==
    /\ Current
    /\ calls = <<>>
    /\ ~isLoading
    /\ ~isRunning
    /\ time = 2
    /\ ~Rejected
    /\ notes = "n"
    /\ deepwell9.number = 5
    /\ flowLog = <<>>
    /\ flowReadings = {}

RECURSIVE C25_Quoted(_)
C25_Quoted(cells) ==
    IF cells = <<>> THEN <<>>
    ELSE <<34>> \o Head(cells) \o <<34>>
         \o (IF Len(cells) > 1 THEN <<44>> ELSE <<>>)
         \o C25_Quoted(Tail(cells))

RECURSIVE C25_LotLines(_)
C25_LotLines(lots) ==
    IF lots = <<>> THEN <<>>
    ELSE LET lot == Head(lots)
         IN  <<10>>
             \o C25_Quoted(<<lot.name, NumberToString(lot.currentBalance),
                             lot.unit, NumberToString(lot.quantity),
                             lot.supplier, lot.dateReceived, lot.expiryDate,
                             lot.storageLocation,
                             IF lot.remarks = <<>> THEN <<>> ELSE lot.remarks[1]>>)
             \o C25_LotLines(Tail(lots))

RECURSIVE C25_UsageLines(_)
C25_UsageLines(usages) ==
    IF usages = <<>> THEN <<>>
    ELSE LET usage == Head(usages)
         IN  <<10>>
             \o C25_Quoted(<<usage.chemicalName,
                             NumberToString(usage.quantityUsed), usage.dateUsed,
                             usage.personInCharge,
                             IF usage.remarks = <<>> THEN <<>> ELSE usage.remarks[1]>>)
             \o C25_UsageLines(Tail(usages))

\* "Chemical Name,Current Balance,Unit,Original Quantity,Supplier,Date
\* Received,Expiry Date,Storage Location,Remarks"
C25_LotHeader ==
    <<67, 104, 101, 109, 105, 99, 97, 108, 32, 78, 97, 109, 101, 44, 67, 117, 114, 114, 101, 110, 116, 32, 66, 97, 108, 97, 110, 99, 101, 44, 85, 110, 105, 116, 44, 79, 114, 105, 103, 105, 110, 97, 108, 32, 81, 117, 97, 110, 116, 105, 116, 121, 44, 83, 117, 112, 112, 108, 105, 101, 114, 44, 68, 97, 116, 101, 32, 82, 101, 99, 101, 105, 118, 101, 100, 44, 69, 120, 112, 105, 114, 121, 32, 68, 97, 116, 101, 44, 83, 116, 111, 114, 97, 103, 101, 32, 76, 111, 99, 97, 116, 105, 111, 110, 44, 82, 101, 109, 97, 114, 107, 115>>
\* "Chemical Name,Quantity Used,Date Used,Person In Charge,Remarks"
C25_UsageHeader ==
    <<67, 104, 101, 109, 105, 99, 97, 108, 32, 78, 97, 109, 101, 44, 81, 117, 97, 110, 116, 105, 116, 121, 32, 85, 115, 101, 100, 44, 68, 97, 116, 101, 32, 85, 115, 101, 100, 44, 80, 101, 114, 115, 111, 110, 32, 73, 110, 32, 67, 104, 97, 114, 103, 101, 44, 82, 101, 109, 97, 114, 107, 115>>

\* C25: the exported document is, line after line: the title, "Generated on: "
\* with the time stamp, an empty line, the lot section (its title, the column
\* names, then one row per lot in the order of the collection), an empty line,
\* and the usage section (its title, the column names, then one row per usage
\* event in the order of the history); every field of a row stands between
\* two quotes, the fields of a row are separated by commas and come in the
\* order of the column names.
C25_ExportDocument ==
    download # <<>> =>
        \E stamp \in Stamps :
            download =
                Title \o <<10>>
                \o GeneratedOn \o stamp \o <<10>>
                \o <<10>>
                \o CurrentInventory \o <<10>>
                \o C25_LotHeader \o C25_LotLines(state.chemicals) \o <<10>>
                \o <<10>>
                \o UsageHistoryTitle \o <<10>>
                \o C25_UsageHeader \o C25_UsageLines(state.usageHistory)

\* the export of two lots, the first named A" with remarks, and of one usage
\* event
C25_Witness ==
    /\ download # <<>>
    /\ toast = "Export Successful"
    /\ Len(state.chemicals) = 2
    /\ state.chemicals[1].name = <<65, 34>>
    /\ state.chemicals[2].remarks = <<>>
    /\ Len(state.usageHistory) = 1

\* C26: from the mount of ChemicalInventory until its initial load is complete
\* (after the load effect, after the save effect, after the render of the
\* loaded data), the blob under the key still holds the chemicals and the
\* usage history the previous session saved.
C26_StartupKeepsSavedData ==
    /\ mount.pc \in {"mounted", "loaded", "saved"}
    /\ mount.prior # Null
    /\ ~JSONparseThrows(mount.prior)
    => /\ localStorage.chemicals = mount.prior.chemicals
       /\ localStorage.usageHistory = mount.prior.usageHistory

\* an auto-log is on its way: its addDoc, or the loadFlowLog that follows it
AutoLogInFlight(cs) ==
    \E i \in DOMAIN cs :
        \/ cs[i].op = "addDoc"
        \/ cs[i].op = "getDocs" /\ cs[i].caller = "autoLogReading"

\* C27: while an auto-log is in flight the stopwatch is not started, not
\* stopped again and Clear All does not begin; so no second reading is sent
\* for the same stop, and the reset at the end of the auto-log finds the
\* stopwatch stopped, with no measurement begun since the stop.
C27_NoInterleavedMeasurement ==
    [][AutoLogInFlight(calls) =>
           /\ ~isRunning /\ ~isRunning'
           /\ time' = time \/ time' = 0
           /\ AddDocs(calls') <= AddDocs(calls)
           /\ Cardinality({i \in DOMAIN calls' : calls'[i].op = "deleteDoc"})
                  <= Cardinality(InFlight("deleteDoc"))]_vars

\* C28: the gpm of every reading that goes to addDoc is the flow rate of the
\* reading's own duration, however the ticks, the GPM effect and the click
\* on Stop interleave.
C28_ReadingSelfConsistent ==
    [][AddDocs(calls') > AddDocs(calls) =>
           NewReading.gpm = GPM(NewReading.duration)]_vars

\* C29: a click on Stop at a non-zero time whose fields are rejected sends
\* nothing to the store and leaves the stopwatch stopped at that time, with
\* no auto-log under way that would reset it; the stopped time then changes
\* only by a click on Reset, Start leaves it as it is, and the ticks after
\* Start count on from it.
C29_RejectedStopKeepsTime ==
    [][/\ stopStopwatch /\ time # 0 /\ Rejected =>
              /\ calls' = calls
              /\ flowReadings' = flowReadings
              /\ ~isRunning'
              /\ time' = time
              /\ ~AutoLogInFlight(calls')
       /\ ~isRunning /\ time # 0 /\ ~AutoLogInFlight(calls) /\ time' # time =>
              resetStopwatch
       /\ startStopwatch => time' = time
       /\ isRunning /\ isRunning' /\ time' # time /\ ~AutoLogInFlight(calls) =>
              time' = time + 1 \/ resetStopwatch]_vars

\* C30: the table starts sorted by name, ascending; a click on the header of
\* the current sort field keeps the field and turns the direction round, a
\* click on the header of another field selects that field, ascending; a new
\* search term, filter mode or lot collection leaves field and direction as
\* they are, so they change by header clicks only.
C30_SortControl ==
    /\ table.sortBy = "name" /\ table.sortOrder = "asc"
    /\ [][/\ \A field \in SortFields :
                 handleSort(field) =>
                     IF table.sortBy = field
                     THEN /\ table'.sortBy = field
                          /\ table'.sortOrder # table.sortOrder
                          /\ table'.sortOrder \in {"asc", "desc"}
                     ELSE /\ table'.sortBy = field
                          /\ table'.sortOrder = "asc"
          /\ \/ table'.searchTerm # table.searchTerm
             \/ table'.filterBy # table.filterBy
             \/ table'.chemicals # table.chemicals
             => /\ table'.sortBy = table.sortBy
                /\ table'.sortOrder = table.sortOrder]_vars

\* sorted by expiry date, descending, then a lot added and a term typed
C30_Witness ==
    /\ table.sortBy = "expiryDate"
    /\ table.sortOrder = "desc"
    /\ table.searchTerm = <<97, 99>>
    /\ table.filterBy = "location"
    /\ table.chemicals = <<LotC, LotA>>
    /\ rendered.sortedChemicals = <<>>

====
